---- MODULE Spec2Model ----
(***************************************************************************)
(* min-batch: the stream adapters MinBatch (src/src/lib.rs) and            *)
(* MinBatchWithWeight (src/src/min_batch_with_weight.rs).                  *)
(*                                                                         *)
(* One adapter instance is modelled together with its upstream stream and  *)
(* the consumer that polls it.  An upstream item is its position in the    *)
(* upstream sequence (1, 2, ...); count_fn(item) is the weight the caller's*)
(* closure gives it.  usize is scaled down to UsizeBits bits; `+=` on a    *)
(* usize wraps when the crate is built without overflow checks (release    *)
(* profile) and panics when it is built with them (debug profile).         *)
(* Vec::reserve / Vec::with_capacity only change capacity and are left out.*)
(*                                                                         *)
(* Spec       one adapter, any stalls of the upstream                      *)
(* SpecLive   Spec with a consumer that keeps polling and an upstream that *)
(*            does not stall for ever                                      *)
(* SpecPair   MinBatch and MinBatchWithWeight over the same upstream       *)
(* SpecStalls one adapter with stalls, after the same adapter without      *)
(***************************************************************************)
EXTENDS Integers, Sequences, FiniteSets, TLC

\* ---- bounds of the model ----
MaxLen == 3
MaxWeight == 2
MaxMinWeight == 3
UsizeBits == 3

RECURSIVE Pow2(_)
Pow2(n) == IF n = 0 THEN 1 ELSE 2 * Pow2(n - 1)

UsizeModulus == Pow2(UsizeBits)
UsizeMax == UsizeModulus - 1

\* weights the caller's count_fn may return, and thresholds the caller may pass
Weights == (0..MaxWeight) \cup {UsizeMax}
MinWeights == 0..MaxMinWeight

RECURSIVE SeqsUpTo(_, _)
SeqsUpTo(S, n) ==
  IF n = 0 THEN {<<>>}
  ELSE LET shorter == SeqsUpTo(S, n - 1)
       IN shorter \cup {Append(s, x) : s \in {t \in shorter : Len(t) = n - 1}, x \in S}

VARIABLES
  variant,            \* which adapter wraps the upstream: "MinBatch" or "MinBatchWithWeight"
  overflow_checks,    \* build profile: TRUE = `+=` panics on overflow, FALSE = it wraps
  input,              \* the weights of the items upstream will produce, in order
  failed_item,        \* the upstream item that is a failure (an Err of an upstream
                      \* whose Item is a Result), 0 when no item is one
  min_batch_size,     \* min_batch_size / min_batch_weight, fixed at construction
  next_item,          \* upstream: the item the inner stream produces next
  upstream_done,      \* upstream: the inner stream has returned Ready(None)
  fuse_done,          \* Fuse<S>: the `done` flag
  items,              \* the adapter's buffer `items`
  current_batch_size, \* current_batch_size / current_batch_weight
  pc,                 \* "idle" between poll_next calls, "polling" inside the loop, "panicked"
  result,             \* what the last completed poll_next returned
  outputs,            \* history: every Ready(Some(..)) value returned, in order
  causes,             \* history: for each output, "threshold" or "drain"
  last_poll,          \* history: what the upstream pull answered last
  call_start,         \* history: the state in which the latest poll_next call began
  twin                \* a second adapter over its own copy of the same upstream
                      \* items (used when two runs are compared; idle otherwise)

vars == <<variant, overflow_checks, input, failed_item, min_batch_size, next_item, upstream_done,
          fuse_done, items, current_batch_size, pc, result, outputs, causes, last_poll,
          call_start, twin>>

config == <<variant, overflow_checks, input, failed_item, min_batch_size>>
history == <<outputs, causes>>

\* the caller's weight closure: (me.count_fn)(&item)
count_fn(item) == input[item]

RECURSIVE SumWeights(_)
SumWeights(s) == IF s = <<>> THEN 0 ELSE count_fn(Head(s)) + SumWeights(Tail(s))

\* WrappingAdd that assigns the new weight instead of adding it
WrappingAdd_assign(a, b) == b % UsizeModulus

\* `a += b` on usize in a build without overflow checks
WrappingAdd(a, b) == (a + b) % UsizeModulus

\* `a += b` overflows usize
Overflows(a, b) == a + b > UsizeMax

\* MB_is_terminated that looks at the buffer only
MB_is_terminated_buffer_only == items = <<>>

\* FusedStream for MinBatch
MB_is_terminated == fuse_done /\ items = <<>>

\* FusedStream for MinBatchWithWeight
MBW_is_terminated == fuse_done /\ items = <<>>

\* is_terminated() of the adapter that is running
is_terminated ==
  IF variant = "MinBatch" THEN MB_is_terminated ELSE MBW_is_terminated

CallStart == [outputs |-> Len(outputs), items |-> items,
              size |-> current_batch_size, next_item |-> next_item,
              exhausted |-> upstream_done, is_terminated |-> is_terminated]

\* ---- the upstream stream S and Fuse<S> ----

\* What the inner stream may answer to a poll.  After it has returned
\* Ready(None) the Stream contract leaves its answers open.
InnerResponses ==
  IF upstream_done THEN {"Pending", "None"}
  ELSE IF next_item <= Len(input) THEN {"Pending", "Some"}
  ELSE {"Pending", "None"}

\* Fuse::poll_next without the `done` guard: the inner stream is polled every time.
UnfusedPollNext(r) ==
  /\ r \in InnerResponses
  /\ last_poll' = r
  /\ next_item' = IF r = "Some" THEN next_item + 1 ELSE next_item
  /\ upstream_done' = (upstream_done \/ r = "None")
  /\ fuse_done' = (fuse_done \/ r = "None")

\* me.stream.as_mut().poll_next(cx) on Fuse<S>: once done, Ready(None) without
\* polling the inner stream; otherwise the inner stream's answer, and done is
\* set when that answer is Ready(None).
FusePollNext(r) ==
  IF fuse_done
  THEN r = "None" /\ last_poll' = r /\ UNCHANGED <<next_item, upstream_done, fuse_done>>
  ELSE /\ r \in InnerResponses
       /\ last_poll' = r
       /\ next_item' = IF r = "Some" THEN next_item + 1 ELSE next_item
       /\ upstream_done' = (upstream_done \/ r = "None")
       /\ fuse_done' = (r = "None")

\* MinBatch::new / MinBatchWithWeight::new, for the second adapter
T_New(v) ==
  [variant |-> v, next_item |-> 1, fuse_done |-> FALSE, items |-> <<>>,
   size |-> 0, pc |-> "idle", result |-> "NotPolled", outputs |-> <<>>]

\* the adapter after construction, its upstream not yet polled
Start ==
  /\ variant \in {"MinBatch", "MinBatchWithWeight"}
  /\ overflow_checks \in BOOLEAN
  /\ input \in SeqsUpTo(Weights, MaxLen)
  /\ failed_item \in 0..Len(input)
  /\ min_batch_size \in MinWeights
  /\ next_item = 1
  /\ upstream_done = FALSE
  /\ fuse_done = FALSE
  /\ items = <<>>
  /\ current_batch_size = 0
  /\ pc = "idle"
  /\ result = "NotPolled"
  /\ outputs = <<>>
  /\ causes = <<>>
  /\ last_poll = "NotPolled"
  /\ call_start = CallStart

Init == Start /\ twin = T_New(variant)

\* ---- MinBatch::poll_next (src/src/lib.rs) ----

\* the consumer calls poll_next
MB_PollEnter ==
  /\ variant = "MinBatch"
  /\ pc = "idle"
  /\ pc' = "polling"
  /\ call_start' = CallStart
  /\ UNCHANGED <<config, next_item, upstream_done, fuse_done, items,
                 current_batch_size, result, history, last_poll>>

\* MB_PollPending that flushes a non-empty buffer when upstream stalls
MB_PollPending_flush ==
  /\ variant = "MinBatch"
  /\ pc = "polling"
  /\ FusePollNext("Pending")
  /\ pc' = "idle"
  /\ IF items = <<>>
     THEN /\ result' = "Pending"
          /\ UNCHANGED <<items, current_batch_size, history>>
     ELSE /\ current_batch_size' = 0
          /\ items' = <<>>
          /\ outputs' = Append(outputs, items)
          /\ causes' = Append(causes, "stall")
          /\ result' = "ReadySome"
  /\ UNCHANGED <<config, call_start>>

\* ready!(..) on Poll::Pending: return Poll::Pending
MB_PollPending ==
  /\ variant = "MinBatch"
  /\ pc = "polling"
  /\ FusePollNext("Pending")
  /\ pc' = "idle"
  /\ result' = "Pending"
  /\ UNCHANGED <<config, items, current_batch_size, history, call_start>>

\* MB_ThresholdReached that cuts one unit of weight too early
MB_ThresholdReached_early(size, min) == size + 1 >= min

\* MB_ThresholdReached that asks for more than the minimum
MB_ThresholdReached_strict(size, min) == size > min

\* me.current_batch_size >= me.min_batch_size
MB_ThresholdReached(size, min) == size >= min

\* Some(item) => push, add the weight, cut the batch when the threshold is reached
MB_PollSome ==
  /\ variant = "MinBatch"
  /\ pc = "polling"
  /\ FusePollNext("Some")
  /\ LET item == next_item
         new_count == count_fn(item)
         pushed == Append(items, item)
     IN IF overflow_checks /\ Overflows(current_batch_size, new_count)
        THEN /\ items' = pushed
             /\ pc' = "panicked"
             /\ UNCHANGED <<current_batch_size, result, history>>
        ELSE LET size == WrappingAdd(current_batch_size, new_count)
             IN IF MB_ThresholdReached(size, min_batch_size)
                THEN /\ current_batch_size' = 0
                     /\ items' = <<>>
                     /\ outputs' = Append(outputs, pushed)
                     /\ causes' = Append(causes, "threshold")
                     /\ pc' = "idle"
                     /\ result' = "ReadySome"
                ELSE /\ current_batch_size' = size
                     /\ items' = pushed
                     /\ UNCHANGED <<pc, result, history>>
  /\ UNCHANGED <<config, call_start>>

\* MB_PollNone that signals end-of-output without handing out the remainder
MB_PollNone_drop ==
  /\ variant = "MinBatch"
  /\ pc = "polling"
  /\ FusePollNext("None")
  /\ result' = "ReadyNone"
  /\ pc' = "idle"
  /\ UNCHANGED <<config, items, current_batch_size, history, call_start>>

\* MB_PollNone that hands out the remainder but keeps current_batch_size
MB_PollNone_noreset ==
  /\ variant = "MinBatch"
  /\ pc = "polling"
  /\ FusePollNext("None")
  /\ IF items = <<>>
     THEN /\ result' = "ReadyNone"
          /\ UNCHANGED <<items, current_batch_size, history>>
     ELSE /\ items' = <<>>
          /\ outputs' = Append(outputs, items)
          /\ causes' = Append(causes, "drain")
          /\ result' = "ReadySome"
          /\ UNCHANGED current_batch_size
  /\ pc' = "idle"
  /\ UNCHANGED <<config, call_start>>

\* None => the remainder, if any, is the last batch
MB_PollNone ==
  /\ variant = "MinBatch"
  /\ pc = "polling"
  /\ FusePollNext("None")
  /\ IF items = <<>>
     THEN /\ result' = "ReadyNone"
          /\ UNCHANGED <<items, current_batch_size, history>>
     ELSE /\ current_batch_size' = 0
          /\ items' = <<>>
          /\ outputs' = Append(outputs, items)
          /\ causes' = Append(causes, "drain")
          /\ result' = "ReadySome"
  /\ pc' = "idle"
  /\ UNCHANGED <<config, call_start>>

\* ---- MinBatchWithWeight::poll_next (src/src/min_batch_with_weight.rs) ----

\* the consumer calls poll_next
MBW_PollEnter ==
  /\ variant = "MinBatchWithWeight"
  /\ pc = "idle"
  /\ pc' = "polling"
  /\ call_start' = CallStart
  /\ UNCHANGED <<config, next_item, upstream_done, fuse_done, items,
                 current_batch_size, result, history, last_poll>>

\* MBW_PollPending that flushes a non-empty buffer when upstream stalls
MBW_PollPending_flush ==
  /\ variant = "MinBatchWithWeight"
  /\ pc = "polling"
  /\ FusePollNext("Pending")
  /\ pc' = "idle"
  /\ IF items = <<>>
     THEN /\ result' = "Pending"
          /\ UNCHANGED <<items, current_batch_size, history>>
     ELSE /\ current_batch_size' = 0
          /\ items' = <<>>
          /\ outputs' = Append(outputs, <<items, current_batch_size>>)
          /\ causes' = Append(causes, "stall")
          /\ result' = "ReadySome"
  /\ UNCHANGED <<config, call_start>>

\* ready!(..) on Poll::Pending: return Poll::Pending
MBW_PollPending ==
  /\ variant = "MinBatchWithWeight"
  /\ pc = "polling"
  /\ FusePollNext("Pending")
  /\ pc' = "idle"
  /\ result' = "Pending"
  /\ UNCHANGED <<config, items, current_batch_size, history, call_start>>

\* MBW_ThresholdReached that asks for more than the minimum
MBW_ThresholdReached_strict(weight, min) == weight > min

\* *me.current_batch_weight >= *me.min_batch_weight
MBW_ThresholdReached(weight, min) == weight >= min

\* MBW_PollSome that returns Pending after an item that does not fill the batch
MBW_PollSome_yield ==
  /\ variant = "MinBatchWithWeight"
  /\ pc = "polling"
  /\ FusePollNext("Some")
  /\ LET item == next_item
         new_count == count_fn(item)
         pushed == Append(items, item)
     IN IF overflow_checks /\ Overflows(current_batch_size, new_count)
        THEN /\ items' = pushed
             /\ pc' = "panicked"
             /\ UNCHANGED <<current_batch_size, result, history>>
        ELSE LET weight == WrappingAdd(current_batch_size, new_count)
             IN IF MBW_ThresholdReached(weight, min_batch_size)
                THEN /\ current_batch_size' = 0
                     /\ items' = <<>>
                     /\ outputs' = Append(outputs, <<pushed, weight>>)
                     /\ causes' = Append(causes, "threshold")
                     /\ pc' = "idle"
                     /\ result' = "ReadySome"
                ELSE /\ current_batch_size' = weight
                     /\ items' = pushed
                     /\ pc' = "idle"
                     /\ result' = "Pending"
                     /\ UNCHANGED history
  /\ UNCHANGED <<config, call_start>>

\* MBW_PollSome that leaves current_batch_weight as it is when it cuts a batch
MBW_PollSome_noreset ==
  /\ variant = "MinBatchWithWeight"
  /\ pc = "polling"
  /\ FusePollNext("Some")
  /\ LET item == next_item
         new_count == count_fn(item)
         pushed == Append(items, item)
     IN IF overflow_checks /\ Overflows(current_batch_size, new_count)
        THEN /\ items' = pushed
             /\ pc' = "panicked"
             /\ UNCHANGED <<current_batch_size, result, history>>
        ELSE LET weight == WrappingAdd(current_batch_size, new_count)
             IN IF MBW_ThresholdReached(weight, min_batch_size)
                THEN /\ current_batch_size' = weight
                     /\ items' = <<>>
                     /\ outputs' = Append(outputs, <<pushed, weight>>)
                     /\ causes' = Append(causes, "threshold")
                     /\ pc' = "idle"
                     /\ result' = "ReadySome"
                ELSE /\ current_batch_size' = weight
                     /\ items' = pushed
                     /\ UNCHANGED <<pc, result, history>>
  /\ UNCHANGED <<config, call_start>>

\* Some(item) => push, add the weight, cut (batch, weight) when the threshold is reached
MBW_PollSome ==
  /\ variant = "MinBatchWithWeight"
  /\ pc = "polling"
  /\ FusePollNext("Some")
  /\ LET item == next_item
         new_count == count_fn(item)
         pushed == Append(items, item)
     IN IF overflow_checks /\ Overflows(current_batch_size, new_count)
        THEN /\ items' = pushed
             /\ pc' = "panicked"
             /\ UNCHANGED <<current_batch_size, result, history>>
        ELSE LET weight == WrappingAdd(current_batch_size, new_count)
             IN IF MBW_ThresholdReached(weight, min_batch_size)
                THEN /\ current_batch_size' = 0
                     /\ items' = <<>>
                     /\ outputs' = Append(outputs, <<pushed, weight>>)
                     /\ causes' = Append(causes, "threshold")
                     /\ pc' = "idle"
                     /\ result' = "ReadySome"
                ELSE /\ current_batch_size' = weight
                     /\ items' = pushed
                     /\ UNCHANGED <<pc, result, history>>
  /\ UNCHANGED <<config, call_start>>

\* MBW_PollNone that hands out the buffer even when it is empty
MBW_PollNone_always ==
  /\ variant = "MinBatchWithWeight"
  /\ pc = "polling"
  /\ FusePollNext("None")
  /\ current_batch_size' = 0
  /\ items' = <<>>
  /\ outputs' = Append(outputs, <<items, current_batch_size>>)
  /\ causes' = Append(causes, "drain")
  /\ result' = "ReadySome"
  /\ pc' = "idle"
  /\ UNCHANGED <<config, call_start>>

\* None => the remainder, if any, is the last (batch, weight)
MBW_PollNone ==
  /\ variant = "MinBatchWithWeight"
  /\ pc = "polling"
  /\ FusePollNext("None")
  /\ IF items = <<>>
     THEN /\ result' = "ReadyNone"
          /\ UNCHANGED <<items, current_batch_size, history>>
     ELSE /\ current_batch_size' = 0
          /\ items' = <<>>
          /\ outputs' = Append(outputs, <<items, current_batch_size>>)
          /\ causes' = Append(causes, "drain")
          /\ result' = "ReadySome"
  /\ pc' = "idle"
  /\ UNCHANGED <<config, call_start>>

\* ---- poll_next of the second adapter, as functions of its state t ----

\* what Fuse<S> may answer to the second adapter's pull
T_Responses(t) ==
  IF t.fuse_done THEN {"None"}
  ELSE IF t.next_item <= Len(input) THEN {"Pending", "Some"}
  ELSE {"Pending", "None"}

\* the threshold test of the adapter of variant v
T_ThresholdReached(v, size, min) ==
  IF v = "MinBatch" THEN MB_ThresholdReached(size, min)
  ELSE MBW_ThresholdReached(size, min)

\* the value returned for a batch: Vec<T>, or (Vec<T>, usize)
T_Output(v, batch, weight) ==
  IF v = "MinBatch" THEN batch ELSE <<batch, weight>>

\* the consumer calls poll_next
T_PollEnter(t) == [t EXCEPT !.pc = "polling"]

\* T_PollPending that flushes a non-empty buffer when upstream stalls
T_PollPending_flush(t) ==
  IF t.items = <<>>
  THEN [t EXCEPT !.pc = "idle", !.result = "Pending"]
  ELSE [t EXCEPT !.pc = "idle", !.result = "ReadySome", !.items = <<>>, !.size = 0,
                 !.outputs = Append(t.outputs, T_Output(t.variant, t.items, t.size))]

\* ready!(..) on Poll::Pending: return Poll::Pending
T_PollPending(t) == [t EXCEPT !.pc = "idle", !.result = "Pending"]

\* Some(item) => push, add the weight, cut the batch when the threshold is reached
T_PollSome(t) ==
  LET item == t.next_item
      new_count == count_fn(item)
      pushed == Append(t.items, item)
      pulled == [t EXCEPT !.next_item = t.next_item + 1]
  IN IF overflow_checks /\ Overflows(t.size, new_count)
     THEN [pulled EXCEPT !.items = pushed, !.pc = "panicked"]
     ELSE LET size == WrappingAdd(t.size, new_count)
          IN IF T_ThresholdReached(t.variant, size, min_batch_size)
             THEN [pulled EXCEPT !.size = 0, !.items = <<>>,
                                 !.outputs = Append(t.outputs,
                                                    T_Output(t.variant, pushed, size)),
                                 !.pc = "idle", !.result = "ReadySome"]
             ELSE [pulled EXCEPT !.size = size, !.items = pushed]

\* None => the remainder, if any, is the last batch
T_PollNone(t) ==
  LET done == [t EXCEPT !.fuse_done = TRUE, !.pc = "idle"]
  IN IF t.items = <<>>
     THEN [done EXCEPT !.result = "ReadyNone"]
     ELSE [done EXCEPT !.size = 0, !.items = <<>>,
                       !.outputs = Append(t.outputs,
                                          T_Output(t.variant, t.items, t.size)),
                       !.result = "ReadySome"]

\* ---- one adapter ----

Next ==
  \/ MB_PollEnter /\ UNCHANGED twin
  \/ MB_PollPending /\ UNCHANGED twin
  \/ MB_PollSome /\ UNCHANGED twin
  \/ MB_PollNone /\ UNCHANGED twin
  \/ MBW_PollEnter /\ UNCHANGED twin
  \/ MBW_PollPending /\ UNCHANGED twin
  \/ MBW_PollSome /\ UNCHANGED twin
  \/ MBW_PollNone /\ UNCHANGED twin

Spec == Init /\ [][Next]_vars

\* ---- one adapter, polled by a consumer that does not give up ----
\* The consumer calls poll_next again whenever a call has returned; an upstream
\* that is pulled again and again does not answer Pending for ever: it yields
\* its next item, and None once its items are used up.

ConsumerPolls == (MB_PollEnter \/ MBW_PollEnter) /\ UNCHANGED twin
UpstreamYields == (MB_PollSome \/ MBW_PollSome) /\ UNCHANGED twin
UpstreamEnds == (MB_PollNone \/ MBW_PollNone) /\ UNCHANGED twin

SpecLive ==
  /\ Init
  /\ [][Next]_vars
  /\ WF_vars(ConsumerPolls)
  /\ SF_vars(UpstreamYields)
  /\ SF_vars(UpstreamEnds)

\* ---- MinBatch and MinBatchWithWeight side by side ----
\* Both adapters are built over the same items, threshold and count_fn; the
\* consumer polls both, and the k-th upstream pull of each gets the same answer.

InitPair ==
  /\ Start
  /\ variant = "MinBatch"
  /\ failed_item = 0
  /\ twin = T_New("MinBatchWithWeight")

Pair_PollEnter ==
  /\ MB_PollEnter
  /\ twin.pc = "idle"
  /\ twin' = T_PollEnter(twin)

Pair_PollPending ==
  /\ MB_PollPending
  /\ twin.pc = "polling" /\ "Pending" \in T_Responses(twin)
  /\ twin' = T_PollPending(twin)

Pair_PollSome ==
  /\ MB_PollSome
  /\ twin.pc = "polling" /\ "Some" \in T_Responses(twin)
  /\ twin' = T_PollSome(twin)

Pair_PollNone ==
  /\ MB_PollNone
  /\ twin.pc = "polling" /\ "None" \in T_Responses(twin)
  /\ twin' = T_PollNone(twin)

NextPair ==
  \/ Pair_PollEnter
  \/ Pair_PollPending
  \/ Pair_PollSome
  \/ Pair_PollNone

SpecPair == InitPair /\ [][NextPair]_vars

\* ---- a run with stalls against the run without stalls ----
\* The second adapter is the same variant as the first; its upstream never
\* answers Pending and its consumer polls until Ready(None).  The two runs share
\* nothing, so the second is run to its end before the first starts.

InitStalls ==
  /\ Start
  /\ failed_item = 0
  /\ twin = T_New(variant)

TwinFinished ==
  \/ twin.pc = "idle" /\ twin.result = "ReadyNone"
  \/ twin.pc = "panicked"

Twin_PollEnter ==
  /\ twin.pc = "idle" /\ twin.result # "ReadyNone"
  /\ twin' = T_PollEnter(twin)
  /\ UNCHANGED <<config, next_item, upstream_done, fuse_done, items,
                 current_batch_size, pc, result, history, last_poll, call_start>>

Twin_PollSome ==
  /\ twin.pc = "polling" /\ "Some" \in T_Responses(twin)
  /\ twin' = T_PollSome(twin)
  /\ UNCHANGED <<config, next_item, upstream_done, fuse_done, items,
                 current_batch_size, pc, result, history, last_poll, call_start>>

Twin_PollNone ==
  /\ twin.pc = "polling" /\ "None" \in T_Responses(twin)
  /\ twin' = T_PollNone(twin)
  /\ UNCHANGED <<config, next_item, upstream_done, fuse_done, items,
                 current_batch_size, pc, result, history, last_poll, call_start>>

NextStalls ==
  \/ Twin_PollEnter
  \/ Twin_PollSome
  \/ Twin_PollNone
  \/ TwinFinished /\ Next

SpecStalls == InitStalls /\ [][NextStalls]_vars

\* ---- what the consumer has received ----

\* the item list of one returned value: Vec<T> or the first half of (Vec<T>, usize)
BatchItems(out) == IF variant = "MinBatch" THEN out ELSE out[1]

\* the in-order concatenation of the first n returned batches
RECURSIVE ConcatBatches(_)
ConcatBatches(n) ==
  IF n = 0 THEN <<>> ELSE ConcatBatches(n - 1) \o BatchItems(outputs[n])

\* the upstream sequence: items 1..Len(input) in order
UpstreamItems == [i \in 1..Len(input) |-> i]

\* the items absorbed from upstream (and counted) since position p
AbsorbedSince(p) == [i \in 1..(next_item - p) |-> p + i - 1]

\* ---- properties ----

\* C1 (conservation): once poll_next has returned Ready(None), the in-order
\* concatenation of all returned batches is exactly the upstream sequence:
\* nothing lost, duplicated or reordered, every batch a run of consecutive items.
C1_Conservation ==
  (pc = "idle" /\ result = "ReadyNone") =>
     ConcatBatches(Len(outputs)) = UpstreamItems

\* the run ended after two or more batches of a three-item upstream
C1_Witness ==
  /\ pc = "idle" /\ result = "ReadyNone"
  /\ Len(input) >= 3 /\ Len(outputs) >= 2
  /\ causes[Len(outputs)] = "drain"

\* C2 (threshold): every returned batch that was not cut by upstream exhaustion
\* weighs (sum of count_fn over its items) at least min_batch_size; the batch
\* cut by exhaustion is the last one, so only the last batch may be under-weight.
C2_Threshold ==
  \A i \in 1..Len(outputs) :
     /\ causes[i] = "threshold" =>
            SumWeights(BatchItems(outputs[i])) >= min_batch_size
     /\ causes[i] # "threshold" => i = Len(outputs)
     /\ i < Len(outputs) =>
            SumWeights(BatchItems(outputs[i])) >= min_batch_size

\* a threshold batch of several items followed by an under-weight last batch
C2_Witness ==
  /\ Len(outputs) >= 2
  /\ causes[1] = "threshold" /\ Len(BatchItems(outputs[1])) >= 2
  /\ causes[Len(outputs)] = "drain"
  /\ SumWeights(BatchItems(outputs[Len(outputs)])) < min_batch_size

\* C3 (hold across suspension): when the upstream pull of a call answers
\* Pending, the call returns Pending, no batch has been returned by it, and the
\* buffer and the accumulated weight hold what they held when the call began
\* plus every item absorbed by the call.
C3_HoldAcrossSuspension ==
  (pc = "idle" /\ last_poll = "Pending") =>
     /\ result = "Pending"
     /\ Len(outputs) = call_start.outputs
     /\ items = call_start.items \o AbsorbedSince(call_start.next_item)
     /\ current_batch_size =
           WrappingAdd(call_start.size,
                       SumWeights(AbsorbedSince(call_start.next_item)))

\* upstream stalled on a call that began with a partial buffer and absorbed more
C3_Witness ==
  /\ pc = "idle" /\ last_poll = "Pending" /\ result = "Pending"
  /\ call_start.items # <<>>
  /\ Len(items) > Len(call_start.items)
  /\ current_batch_size > call_start.size

\* C4 (weight-reporting accuracy): the integer MinBatchWithWeight pairs with
\* every returned batch is the exact sum of count_fn over that batch's items,
\* for threshold batches and for the last batch alike.
C4_WeightReportingAccuracy ==
  variant = "MinBatchWithWeight" =>
     \A i \in 1..Len(outputs) : outputs[i][2] = SumWeights(outputs[i][1])

\* C5 (terminated is absorbing): a poll_next call that begins after upstream
\* has answered None (the last batch, if any, was returned by the call that
\* saw it) returns Ready(None): it returns no batch, no Pending, and it does
\* not fail.
C5_TerminatedAbsorbing ==
  call_start.exhausted =>
     /\ pc \in {"idle", "polling"}
     /\ Len(outputs) = call_start.outputs
     /\ pc = "idle" => result = "ReadyNone"

\* a call made after the last batch was drained has returned
C5_Witness ==
  /\ call_start.exhausted /\ pc = "idle" /\ result = "ReadyNone"
  /\ Len(outputs) >= 1 /\ causes[Len(outputs)] = "drain"

\* C6 (non-emptiness): no returned batch is empty, in either variant; an
\* empty buffer at exhaustion gives Ready(None), and an empty upstream gives
\* no batch at all.
C6_NonEmptiness ==
  /\ \A i \in 1..Len(outputs) : BatchItems(outputs[i]) # <<>>
  /\ input = <<>> => outputs = <<>>
  /\ (pc = "idle" /\ last_poll = "None" /\ call_start.items = <<>>
        /\ call_start.next_item = next_item) => result = "ReadyNone"

\* upstream was exhausted right after a threshold batch: the buffer was empty
C6_Witness ==
  /\ pc = "idle" /\ last_poll = "None" /\ result = "ReadyNone"
  /\ ~call_start.exhausted
  /\ Len(outputs) >= 1 /\ causes[Len(outputs)] = "threshold"

\* C7 as stated (singleton-overflow): every item whose own weight is
\* >= min_batch_size is returned as a batch holding that item only.
C7_SingletonOverflow ==
  \A i \in 1..Len(outputs) :
     \A k \in 1..Len(BatchItems(outputs[i])) :
        count_fn(BatchItems(outputs[i])[k]) >= min_batch_size =>
           Len(BatchItems(outputs[i])) = 1

\* C7 as amended: an item whose own weight is >= min_batch_size and that is
\* absorbed while the buffer is empty is returned at once as a batch holding
\* that item only (it never waits in the buffer); absorbed while the buffer is
\* not empty, it is never returned alone: it stays behind the buffered items.
C7_SingletonWhenBufferEmpty ==
  /\ \A i \in 1..Len(outputs) :
        count_fn(BatchItems(outputs[i])[1]) >= min_batch_size =>
           Len(BatchItems(outputs[i])) = 1
  /\ items # <<>> => count_fn(items[1]) < min_batch_size

\* after a first batch, an item that alone reaches a positive threshold met an
\* empty buffer and was returned as a singleton
C7_Witness ==
  /\ min_batch_size >= 1
  /\ Len(outputs) >= 2
  /\ Len(BatchItems(outputs[2])) = 1
  /\ count_fn(BatchItems(outputs[2])[1]) >= min_batch_size
  /\ causes[2] = "threshold"

\* the batches an exact greedy cut makes of the items in rest, buf being the
\* run collected so far and acc its weight
RECURSIVE GreedyFrom(_, _, _)
GreedyFrom(rest, buf, acc) ==
  IF rest = <<>> THEN (IF buf = <<>> THEN <<>> ELSE <<buf>>)
  ELSE LET run == Append(buf, Head(rest))
           w == acc + count_fn(Head(rest))
       IN IF w >= min_batch_size
          THEN <<run>> \o GreedyFrom(Tail(rest), <<>>, 0)
          ELSE GreedyFrom(Tail(rest), run, w)

\* C8 (greedy cut): with min_batch_size >= 1 every threshold batch is the
\* shortest run after the previous batch that weighs >= min_batch_size (without
\* its last item it weighs less), and at end-of-output the batches are the
\* greedy partition of the upstream sequence, the remainder being the last.
C8_GreedyCut ==
  min_batch_size >= 1 =>
     /\ \A i \in 1..Len(outputs) :
           causes[i] = "threshold" =>
              LET b == BatchItems(outputs[i])
              IN /\ SumWeights(b) >= min_batch_size
                 /\ SumWeights(SubSeq(b, 1, Len(b) - 1)) < min_batch_size
     /\ (pc = "idle" /\ result = "ReadyNone") =>
           [i \in 1..Len(outputs) |-> BatchItems(outputs[i])]
              = GreedyFrom(UpstreamItems, <<>>, 0)

\* C9 as stated: between poll_next calls the accumulated weight is 0 exactly
\* when the buffer is empty.
C9_ZeroWeightIffEmpty ==
  pc = "idle" => (current_batch_size = 0 <=> items = <<>>)

\* C9 as amended: between poll_next calls an empty buffer has accumulated
\* weight 0 (a positive accumulated weight means a non-empty buffer), and so
\* has a buffer that holds zero-weight items only.
C9_EmptyHasZeroWeight ==
  pc = "idle" =>
     /\ items = <<>> => current_batch_size = 0
     /\ (\A k \in 1..Len(items) : count_fn(items[k]) = 0) => current_batch_size = 0

\* a batch of positive weight has just been cut: buffer and weight were reset
C9_Witness ==
  /\ pc = "idle" /\ result = "ReadySome"
  /\ items = <<>> /\ current_batch_size = 0
  /\ SumWeights(BatchItems(outputs[Len(outputs)])) > 0
  /\ causes[Len(outputs)] = "threshold"

\* C10 (fully-drained query): between calls is_terminated() is true exactly
\* when upstream has answered None and the buffer is empty; it is true once
\* poll_next has returned Ready(None); and a call that begins while it is true
\* returns Ready(None) and no batch.
C10_FullyDrainedQuery ==
  /\ pc = "idle" => (is_terminated <=> (upstream_done /\ items = <<>>))
  /\ (pc = "idle" /\ result = "ReadyNone") => is_terminated
  /\ call_start.is_terminated =>
        /\ pc \in {"idle", "polling"}
        /\ Len(outputs) = call_start.outputs
        /\ pc = "idle" => result = "ReadyNone"

\* is_terminated() was true when a call began, and that call has returned
C10_Witness ==
  /\ pc = "idle" /\ is_terminated /\ call_start.is_terminated
  /\ result = "ReadyNone" /\ outputs # <<>>

\* the upstream is not empty and every item weighs 0
ZeroWeightsOnly == input # <<>> /\ \A i \in 1..Len(input) : input[i] = 0

\* C11 (zero-weight items): with min_batch_size >= 1, a non-empty upstream of
\* zero-weight items gives no batch before upstream answers None, and from then
\* on exactly one batch, holding all the items in order.
C11_ZeroWeightItems ==
  (min_batch_size >= 1 /\ ZeroWeightsOnly) =>
     /\ ~upstream_done => outputs = <<>>
     /\ upstream_done =>
          /\ Len(outputs) = 1
          /\ BatchItems(outputs[1]) = UpstreamItems
          /\ causes[1] = "drain"

\* several zero-weight items were drained as one batch, and a later call ended
C11_Witness ==
  /\ min_batch_size >= 1 /\ ZeroWeightsOnly /\ Len(input) >= 2
  /\ pc = "idle" /\ result = "ReadyNone" /\ Len(outputs) = 1

\* C12 (min_batch_size = 0): every upstream item, whatever its weight, is
\* returned as a singleton batch by the call that absorbed it: the buffer is
\* never left holding an item, a call absorbs one item at most, the i-th batch
\* is the i-th item, and at end-of-output there are as many batches as items.
C12_ZeroThreshold ==
  min_batch_size = 0 =>
     /\ pc # "panicked"
     /\ items = <<>>
     /\ Len(outputs) = next_item - 1
     /\ \A i \in 1..Len(outputs) : BatchItems(outputs[i]) = <<i>>
     /\ pc = "idle" => next_item - call_start.next_item <= 1
     /\ (pc = "idle" /\ result = "ReadyNone") => Len(outputs) = Len(input)

\* a zero-weight item and a heavy item were each returned alone, then the end
C12_Witness ==
  /\ min_batch_size = 0
  /\ Len(input) >= 2 /\ input[1] = 0 /\ input[2] = UsizeMax
  /\ pc = "idle" /\ result = "ReadyNone" /\ Len(outputs) = Len(input)

\* C13 (upstream failure): once upstream has yielded a failure, the call that
\* pulled it hands the failure to the consumer at once (it is not kept in the
\* buffer), the failure is not delivered together with the items that were
\* buffered, and no item that follows the failure is delivered in a batch.
C13_UpstreamFailure ==
  (failed_item > 0 /\ next_item > failed_item) =>
     /\ pc = "idle" => \A k \in 1..Len(items) : items[k] # failed_item
     /\ \A i \in 1..Len(outputs) :
           LET b == BatchItems(outputs[i])
           IN /\ (\E k \in 1..Len(b) : b[k] = failed_item) => b = <<failed_item>>
              /\ \A k \in 1..Len(b) : b[k] <= failed_item

\* C14 (weight of the buffer): between poll_next calls the accumulated weight
\* is the sum of count_fn over the buffered items, for weights whose sum is
\* within the bound of usize.
C14_WeightIsBufferSum ==
  (pc = "idle" /\ SumWeights(items) <= UsizeMax) =>
     current_batch_size = SumWeights(items)

\* upstream stalled on a buffer of several items of positive weight
C14_Witness ==
  /\ pc = "idle" /\ Len(items) >= 2
  /\ \A k \in 1..Len(items) : count_fn(items[k]) > 0
  /\ current_batch_size = SumWeights(items)

\* the buffer at the moment the running call's upstream pull answered None
BufferAtNone == call_start.items \o AbsorbedSince(call_start.next_item)

\* C15 (drain step): the call in which upstream answers None while the buffer
\* is not empty returns the whole buffer as the last batch, whatever its weight,
\* and resets buffer and weight; a run has one drained batch at most, and a call
\* that begins after the None returns Ready(None) and no batch.
C15_DrainStep ==
  /\ (pc = "idle" /\ last_poll = "None" /\ ~call_start.exhausted
        /\ BufferAtNone # <<>>) =>
        /\ result = "ReadySome"
        /\ Len(outputs) = call_start.outputs + 1
        /\ BatchItems(outputs[Len(outputs)]) = BufferAtNone
        /\ causes[Len(outputs)] = "drain"
        /\ items = <<>>
        /\ current_batch_size = 0
  /\ Cardinality({i \in 1..Len(causes) : causes[i] = "drain"}) <= 1
  /\ (pc = "idle" /\ call_start.exhausted) =>
        /\ result = "ReadyNone"
        /\ Len(outputs) = call_start.outputs

\* an under-weight remainder was drained, and the next call returned Ready(None)
C15_Witness ==
  /\ pc = "idle" /\ call_start.exhausted /\ result = "ReadyNone"
  /\ Len(outputs) >= 2 /\ causes[Len(outputs)] = "drain"
  /\ 0 < SumWeights(BatchItems(outputs[Len(outputs)]))
  /\ SumWeights(BatchItems(outputs[Len(outputs)])) < min_batch_size

\* C16 (no suspension of its own): a call returns Pending only when its last
\* upstream pull answered Pending, and a call whose last pull yielded an item
\* returns only because that item completed a batch: an item that leaves the
\* weight below min_batch_size is followed by another pull in the same call.
C16_PendingOnlyFromUpstream ==
  pc = "idle" =>
     /\ result = "Pending" => last_poll = "Pending"
     /\ last_poll = "Some" =>
          /\ result = "ReadySome"
          /\ items = <<>>
          /\ Len(outputs) = call_start.outputs + 1

\* one call absorbed two items or more before it returned
C16_Witness ==
  /\ pc = "idle" /\ result = "ReadySome" /\ last_poll = "Some"
  /\ next_item - call_start.next_item >= 2
  /\ call_start.items = <<>>

\* C19 (bounded carry): with min_batch_size >= 1, whenever a call has returned
\* the accumulated weight is below min_batch_size; right after a batch was
\* returned the buffer is empty and the weight 0; so every returned batch
\* weighs less than min_batch_size plus the weight of its last item.
C19_BoundedCarry ==
  min_batch_size >= 1 =>
     /\ pc = "idle" => current_batch_size < min_batch_size
     /\ (pc = "idle" /\ result = "ReadySome") =>
           (items = <<>> /\ current_batch_size = 0)
     /\ \A i \in 1..Len(outputs) :
           LET b == BatchItems(outputs[i])
           IN SumWeights(b) < min_batch_size + count_fn(b[Len(b)])

\* C17 (variant equivalence), under SpecPair: on every call MinBatch and
\* MinBatchWithWeight return the same outcome (Pending, Ready(None) or a
\* batch), and the batches of MinBatchWithWeight without their weight are the
\* batches of MinBatch.
C17_VariantEquivalence ==
  /\ twin.pc = pc
  /\ twin.result = result
  /\ Len(twin.outputs) = Len(outputs)
  /\ \A i \in 1..Len(outputs) : twin.outputs[i][1] = outputs[i]

\* both adapters returned a batch of two items or more, then another batch,
\* and ended
C17_Witness ==
  /\ twin.variant = "MinBatchWithWeight" /\ variant = "MinBatch"
  /\ pc = "idle" /\ result = "ReadyNone" /\ twin.result = "ReadyNone"
  /\ Len(outputs) >= 2 /\ Len(twin.outputs) >= 2
  /\ Len(outputs[1]) >= 2

\* C18 (suspension-independence), under SpecStalls: whatever the stalls, the
\* batches returned so far are the first batches of the run without stalls, and
\* when the run ends they are all of them: stalls never move a batch boundary.
C18_SuspensionIndependence ==
  TwinFinished =>
     /\ Len(outputs) <= Len(twin.outputs)
     /\ \A i \in 1..Len(outputs) : outputs[i] = twin.outputs[i]
     /\ ((pc = "idle" /\ result = "ReadyNone") \/ pc = "panicked") =>
           outputs = twin.outputs

\* upstream stalled in the middle of the second batch, after a call that had
\* already absorbed part of it
C18_Witness ==
  /\ TwinFinished /\ Len(twin.outputs) >= 2
  /\ pc = "idle" /\ result = "Pending" /\ last_poll = "Pending"
  /\ Len(outputs) = 1 /\ items # <<>>

\* C20 (eventual drain), under SpecLive: when the upstream has finitely many
\* items, is ready again after every stall and then ends, and the consumer keeps
\* polling, poll_next eventually returns Ready(None), with every upstream item
\* returned in some batch and the buffer empty.
C20_EventualDrain ==
  <>(/\ pc = "idle" /\ result = "ReadyNone"
     /\ items = <<>>
     /\ ConcatBatches(Len(outputs)) = UpstreamItems)

====
